---- MODULE Spec2Model ----
(***************************************************************************)
(* CineLuck recording state machine (cineluck/state/machine.py):           *)
(* StateMachine with its transition table, hooks, watchdog and bounded     *)
(* auto-recovery, and SafeStopManager with its background worker.          *)
(*                                                                         *)
(* transition_to runs wholly under StateMachine._lock and is one step.     *)
(* The timer threads (watchdog, recovery) and the safe-stop worker are     *)
(* separate steps that interleave with it. LockSpec shows a caller of      *)
(* transition_to entering the lock as a step of its own, so that steps of  *)
(* the operations that take no lock are seen to fall inside it.            *)
(***************************************************************************)
EXTENDS Integers, Sequences, FiniteSets, TLC

(* ---------------- bounds of the model ---------------- *)
\* pending threading.Timer(2.0, _attempt_recovery) objects kept at once
MaxRecoveryTimers == 1
\* watchdog timer threads that passed their cancellation check and have not run yet
MaxFiring == 1
\* cap on _retry_count (the code has none)
MaxRetryCount == 5
\* hooks registered at once, over both hook tables
MaxHandlers == 1
\* threads calling safe_stop_recording
NumCallers == 2
\* safe-stop worker threads alive or remembered at once
MaxWorkers == 2
\* callbacks connected at once, over all notification kinds (fallback classes)
MaxSubscribers == 2

(* ---------------- CameraState ---------------- *)
IDLE == "idle"
PREVIEW == "preview"
RECORDING == "recording"
STOPPING == "stopping"
ERROR == "error"
CameraState == {IDLE, PREVIEW, RECORDING, STOPPING, ERROR}

VALID_TRANSITIONS ==
  [s \in CameraState |->
     CASE s = IDLE      -> {PREVIEW, ERROR}
       [] s = PREVIEW   -> {RECORDING, IDLE, ERROR}
       [] s = RECORDING -> {STOPPING, ERROR}
       [] s = STOPPING  -> {PREVIEW, IDLE, ERROR}
       [] s = ERROR     -> {IDLE, PREVIEW}]

max_retries == 3

VARIABLES
  current_state,        \* StateMachine._current_state
  retry_count,          \* StateMachine._retry_count
  watchdog_timer,       \* StateMachine._watchdog_timer: "None", "pending" or "expired"
  wd_firing,            \* watchdog timer threads past their cancellation check
  recovery_timers,      \* pending recovery timers
  state_handlers,       \* keys of StateMachine._state_handlers
  transition_handlers,  \* keys of StateMachine._transition_handlers
  emitted,              \* notifications emitted by the latest step, in order
  last,                 \* the latest step: operation, arguments, prior state, result
  pyqt_available,       \* PYQT_AVAILABLE: which SafeStopManager class the module defines
  stop_in_progress,     \* SafeStopManager._stop_in_progress
  caller,               \* each calling thread's position in safe_stop_recording
  worker,               \* each safe-stop worker thread (PyQt6 class)
  fallback,             \* each calling thread's latest run of the fallback class
  signal_callbacks,     \* fallback classes: the callback lists (_signal_callbacks,
                        \* _progress_callbacks, _completed_callbacks); TRUE = a callback that raises
  delivered,            \* fallback classes: the callback calls made by the latest step
  lock,                 \* StateMachine._lock: "free", or the operation that holds it
  recoveries,           \* history: automatic recoveries to Idle completed since the last
                        \* other successful non-error transition (counted up to max_retries)
  shut_down             \* history: shutdown() has returned and no caller has requested a
                        \* transition or a safe stop since

vars == <<current_state, retry_count, watchdog_timer, wd_firing, recovery_timers,
          state_handlers, transition_handlers, emitted, last,
          pyqt_available, stop_in_progress, caller, worker, fallback,
          signal_callbacks, delivered, lock, recoveries, shut_down>>

hookVars == <<state_handlers, transition_handlers, signal_callbacks>>
stopVars == <<pyqt_available, stop_in_progress, caller, worker, fallback>>

(* ---------------- StateMachine, as functions on a snapshot ---------------- *)
\* the machine's fields, with an empty notification log for the step that starts
Machine ==
  [cs |-> current_state, rc |-> retry_count, wd |-> watchdog_timer,
   rt |-> recovery_timers, em |-> <<>>]

\* mutant: the two arguments of the notification swapped
emit_state_changed_swapped(m, new_state, old_state) ==
  [m EXCEPT !.em = Append(@, <<"state_changed", old_state, new_state>>)]

emit_state_changed(m, new_state, old_state) ==
  [m EXCEPT !.em = Append(@, <<"state_changed", new_state, old_state>>)]

emit_error(m, error_message) ==
  [m EXCEPT !.em = Append(@, <<"error_occurred", error_message>>)]

\* mutant: a transition to the mode already held counts as valid
can_transition_to_self(m, new_state) == new_state \in VALID_TRANSITIONS[m.cs] \cup {m.cs}

can_transition_to(m, new_state) == new_state \in VALID_TRANSITIONS[m.cs]

stop_watchdog(m) == [m EXCEPT !.wd = "None"]

start_watchdog(m) ==
  LET m1 == stop_watchdog(m)
  IN  IF m1.cs \in {PREVIEW, RECORDING} THEN [m1 EXCEPT !.wd = "pending"] ELSE m1

\* mutant: the recovery timer is started only while the counter is below max_retries
handle_error_strict_bound(m, error_message) ==
  LET m1 == emit_error(m, error_message)
      m2 == [m1 EXCEPT !.rc = @ + 1]
      m3 == IF m2.cs # ERROR
              THEN emit_state_changed([m2 EXCEPT !.cs = ERROR], ERROR, ERROR)
              ELSE m2
  IN  IF m3.rc < max_retries THEN [m3 EXCEPT !.rt = @ + 1] ELSE m3

\* mutant: the mode is left as it is
handle_error_keeps_mode(m, error_message) ==
  LET m1 == emit_error(m, error_message)
      m2 == [m1 EXCEPT !.rc = @ + 1]
  IN  IF m2.rc <= max_retries THEN [m2 EXCEPT !.rt = @ + 1] ELSE m2

\* mutant: no recovery timer is started
handle_error_no_recovery(m, error_message) ==
  LET m1 == emit_error(m, error_message)
      m2 == [m1 EXCEPT !.rc = @ + 1]
  IN  IF m2.cs # ERROR
        THEN emit_state_changed([m2 EXCEPT !.cs = ERROR], ERROR, ERROR)
        ELSE m2

handle_error(m, error_message) ==
  LET m1 == emit_error(m, error_message)
      m2 == [m1 EXCEPT !.rc = @ + 1]
      \* line 202 assigns before line 203 reads: the old state reported is ERROR
      m3 == IF m2.cs # ERROR
              THEN emit_state_changed([m2 EXCEPT !.cs = ERROR], ERROR, ERROR)
              ELSE m2
  IN  IF m3.rc <= max_retries THEN [m3 EXCEPT !.rt = @ + 1] ELSE m3

\* mutant: the mode-entry hook is called before the new mode is committed
transition_body_entry_hook_first(m, new_state, th_raises, sh_raises) ==
  LET old_state == m.cs
  IN  IF <<old_state, new_state>> \in transition_handlers /\ th_raises
        THEN [m |-> handle_error(m, "Transition error"), ret |-> FALSE,
              raised |-> "transition_handler"]
      ELSE IF new_state \in state_handlers /\ sh_raises
        THEN [m |-> handle_error(m, "State handler error"), ret |-> FALSE,
              raised |-> "state_handler"]
      ELSE
        LET m1 == [m EXCEPT !.cs = new_state]
            m2 == IF new_state # ERROR THEN [m1 EXCEPT !.rc = 0] ELSE m1
            m3 == emit_state_changed(m2, new_state, old_state)
        IN  [m |-> start_watchdog(m3), ret |-> TRUE, raised |-> "none"]

\* mutant: the retry counter is not reset
transition_body_no_reset(m, new_state, th_raises, sh_raises) ==
  LET old_state == m.cs
  IN  IF <<old_state, new_state>> \in transition_handlers /\ th_raises
        THEN [m |-> handle_error(m, "Transition error"), ret |-> FALSE,
              raised |-> "transition_handler"]
      ELSE
        LET m1 == [m EXCEPT !.cs = new_state]
            m3 == emit_state_changed(m1, new_state, old_state)
            m4 == start_watchdog(m3)
        IN  IF new_state \in state_handlers /\ sh_raises
              THEN [m |-> handle_error(m4, "State handler error"), ret |-> FALSE,
                    raised |-> "state_handler"]
              ELSE [m |-> m4, ret |-> TRUE, raised |-> "none"]

\* mutant: the transition hook is called after the new mode is committed and announced
transition_body_hook_after_commit(m, new_state, th_raises, sh_raises) ==
  LET old_state == m.cs
      m1 == [m EXCEPT !.cs = new_state]
      m2 == IF new_state # ERROR THEN [m1 EXCEPT !.rc = 0] ELSE m1
      m3 == emit_state_changed(m2, new_state, old_state)
      m4 == start_watchdog(m3)
  IN  IF <<old_state, new_state>> \in transition_handlers /\ th_raises
        THEN [m |-> handle_error(m3, "Transition error"), ret |-> FALSE,
              raised |-> "transition_handler"]
      ELSE IF new_state \in state_handlers /\ sh_raises
        THEN [m |-> handle_error(m4, "State handler error"), ret |-> FALSE,
              raised |-> "state_handler"]
      ELSE [m |-> m4, ret |-> TRUE, raised |-> "none"]

\* the try block of transition_to, entered once the validity check has passed
transition_body(m, new_state, th_raises, sh_raises) ==
  LET old_state == m.cs
  IN  IF <<old_state, new_state>> \in transition_handlers /\ th_raises
        THEN [m |-> handle_error(m, "Transition error"), ret |-> FALSE,
              raised |-> "transition_handler"]
      ELSE
        LET m1 == [m EXCEPT !.cs = new_state]
            m2 == IF new_state # ERROR THEN [m1 EXCEPT !.rc = 0] ELSE m1
            m3 == emit_state_changed(m2, new_state, old_state)
            m4 == start_watchdog(m3)
        IN  IF new_state \in state_handlers /\ sh_raises
              THEN [m |-> handle_error(m4, "State handler error"), ret |-> FALSE,
                    raised |-> "state_handler"]
              ELSE [m |-> m4, ret |-> TRUE, raised |-> "none"]

\* mutant: the validity check is skipped
transition_to_unchecked(m, new_state, force, th_raises, sh_raises) ==
  transition_body(m, new_state, th_raises, sh_raises)

\* mutant: force does not override the validity check
transition_to_unforced(m, new_state, force, th_raises, sh_raises) ==
  IF ~can_transition_to(m, new_state)
    THEN [m |-> m, ret |-> FALSE, raised |-> "none"]
    ELSE transition_body(m, new_state, th_raises, sh_raises)

\* th_raises / sh_raises: whether the transition hook / state hook raises if it is called;
\* the result carries the new snapshot, the return value and which hook raised
transition_to(m, new_state, force, th_raises, sh_raises) ==
  IF ~force /\ ~can_transition_to(m, new_state)
    THEN [m |-> m, ret |-> FALSE, raised |-> "none"]
    ELSE transition_body(m, new_state, th_raises, sh_raises)

\* mutant: only a stalled recording is reported
watchdog_timeout_handler_recording_only(m) ==
  IF m.cs = RECORDING THEN handle_error(m, "Recording stalled - watchdog timeout")
  ELSE m

watchdog_timeout_handler(m) ==
  IF m.cs = PREVIEW THEN handle_error(m, "Preview stalled - watchdog timeout")
  ELSE IF m.cs = RECORDING THEN handle_error(m, "Recording stalled - watchdog timeout")
  ELSE m

reset_watchdog(m) == IF m.wd # "None" THEN start_watchdog(m) ELSE m

\* mutant: the watchdog is left as it was
force_idle_keeps_watchdog(m) ==
  LET old_state == m.cs
      m2 == [m EXCEPT !.cs = IDLE, !.rc = 0]
  IN  emit_state_changed(m2, IDLE, old_state)

force_idle(m) ==
  LET m1 == stop_watchdog(m)
      old_state == m1.cs
      m2 == [m1 EXCEPT !.cs = IDLE, !.rc = 0]
  IN  emit_state_changed(m2, IDLE, old_state)

shutdown(m) == force_idle(stop_watchdog(m))

(* ---------------- notifications of the fallback classes ---------------- *)
Events == {"state_changed", "error_occurred", "stop_progress", "stop_completed"}

RECURSIVE emit_from_unguarded(_, _, _)
\* the loop without its try/except: the first raising callback ends it
emit_from_unguarded(callbacks, e, i) ==
  IF i > Len(callbacks) THEN [calls |-> <<>>, escaped |-> FALSE]
  ELSE IF callbacks[i] THEN [calls |-> << <<e, i>> >>, escaped |-> TRUE]
  ELSE LET rest == emit_from_unguarded(callbacks, e, i + 1)
       IN  [rest EXCEPT !.calls = << <<e, i>> >> \o @]

RECURSIVE emit_from(_, _, _)
\* the loop of emit_state_changed, emit_error, emit_stop_progress and
\* emit_stop_completed from callback i on: the call, and the except clause that
\* logs what the callback raises and lets the loop go on
emit_from(callbacks, e, i) ==
  IF i > Len(callbacks) THEN [calls |-> <<>>, escaped |-> FALSE]
  ELSE LET rest == emit_from(callbacks, e, i + 1)
       IN  IF callbacks[i]
             THEN [rest EXCEPT !.calls = << <<e, i>> >> \o @]   \* raised, caught, logged
             ELSE [rest EXCEPT !.calls = << <<e, i>> >> \o @]

\* mutant: a raising callback is not caught
emit_unguarded(callbacks, e) == emit_from_unguarded(callbacks, e, 1)

\* one notification e = <<kind, arguments...>>: the calls made, and whether an
\* exception left the emit method
emit(callbacks, e) == emit_from(callbacks, e, 1)

RECURSIVE deliver_all(_)
\* the notifications of one step, in order; an exception that leaves an emit
\* method ends the delivery
deliver_all(em) ==
  IF em = <<>> THEN [calls |-> <<>>, escaped |-> FALSE]
  ELSE LET first == emit(signal_callbacks[Head(em)[1]], Head(em))
       IN  IF first.escaped THEN first
           ELSE LET rest == deliver_all(Tail(em))
                IN  [rest EXCEPT !.calls = first.calls \o @]

\* a step's notifications: those of the state machine are kept in emitted
Notify(em) ==
  /\ emitted' = SelectSeq(em, LAMBDA e : e[1] \in {"state_changed", "error_occurred"})
  /\ delivered' = deliver_all(em)

(* ---------------- steps ---------------- *)
\* the model's caps on the counters the code leaves unbounded
Fits(m) == m.rt <= MaxRecoveryTimers /\ m.rc <= MaxRetryCount

Commit(m) ==
  /\ Fits(m)
  /\ current_state' = m.cs
  /\ retry_count' = m.rc
  /\ watchdog_timer' = m.wd
  /\ recovery_timers' = m.rt
  /\ Notify(m.em)

\* a step made inside "with self._lock:" by operation op: the lock is free, or op
\* took it in an earlier step, and the step ends by releasing it
Locked(op) == lock \in {"free", op} /\ lock' = "free"

\* what a step records about itself (by: the safe-stop worker that made the call,
\* 0 for any other caller)
Step(op, target, force, ret) ==
  [op |-> op, target |-> target, force |-> force, ret |-> ret,
   old |-> current_state, rc0 |-> retry_count, wd0 |-> watchdog_timer,
   rt0 |-> recovery_timers, raised |-> "none", by |-> 0]

\* no thread in this slot
NoWorker ==
  [pc |-> "none", progress |-> <<>>, completed |-> <<>>, calls |-> <<>>,
   raised |-> "none", tret |-> FALSE]

\* what a step of SafeStopManager records about itself
StopStep(op, ret) ==
  [op |-> op, target |-> IDLE, force |-> FALSE, ret |-> ret,
   old |-> IDLE, rc0 |-> 0, wd0 |-> "None", rt0 |-> 0, raised |-> "none", by |-> 0]

\* a run of the fallback safe_stop_recording that has emitted nothing yet
NoRun == [progress |-> <<>>, completed |-> <<>>, calls |-> <<>>, tret |-> FALSE]

\* the state after StateMachine() and SafeStopManager(state_machine)
InitWith(pyqt) ==
  /\ pyqt_available = pyqt
  /\ fallback = [c \in 1..NumCallers |-> NoRun]
  /\ current_state = IDLE
  /\ retry_count = 0
  /\ watchdog_timer = "None"
  /\ wd_firing = 0
  /\ recovery_timers = 0
  /\ state_handlers = {}
  /\ transition_handlers = {}
  /\ emitted = <<>>
  /\ last = [op |-> "init", target |-> IDLE, force |-> FALSE, ret |-> FALSE,
             old |-> IDLE, rc0 |-> 0, wd0 |-> "None", rt0 |-> 0, raised |-> "none", by |-> 0]
  /\ stop_in_progress = FALSE
  /\ caller = [c \in 1..NumCallers |-> "idle"]
  /\ worker = [w \in 1..MaxWorkers |-> NoWorker]
  /\ recoveries = 0
  /\ shut_down = FALSE
  /\ lock = "free"
  /\ signal_callbacks = [e \in Events |-> <<>>]
  /\ delivered = [calls |-> <<>>, escaped |-> FALSE]

\* the application imports PyQt6 (app.py lines 9-11)
Init == InitWith(TRUE)

\* either outcome of the import at machine.py lines 13-33
InitAny == \E pyqt \in BOOLEAN : InitWith(pyqt)

\* whether the hook under this key raises when called; no entry, nothing to raise
HookOutcomes(table, key) == IF key \in table THEN BOOLEAN ELSE {FALSE}

\* the history count after a transition_to call made by anyone but the recovery timer
after_transition(new_state, ret) == IF ret /\ new_state # ERROR THEN 0 ELSE recoveries

\* the history count after the recovery timer's transition_to(IDLE, force=True)
after_recovery(ret) ==
  IF ~ret THEN recoveries
  ELSE IF recoveries < max_retries THEN recoveries + 1 ELSE max_retries

\* an external caller (UI, monitor) calls transition_to(new_state, force)
Transition(force) ==
  \E new_state \in CameraState :
  \E th_raises \in HookOutcomes(transition_handlers, <<current_state, new_state>>),
     sh_raises \in HookOutcomes(state_handlers, new_state) :
    LET r == transition_to(Machine, new_state, force, th_raises, sh_raises)
    IN  /\ Commit(r.m)
        /\ last' = [Step("transition_to", new_state, force, r.ret)
                      EXCEPT !.raised = r.raised]
        /\ recoveries' = after_transition(new_state, r.ret)
        /\ shut_down' = FALSE
        /\ Locked("transition_to")
        /\ UNCHANGED <<wd_firing, hookVars, stopVars>>

TransitionTo == \E force \in BOOLEAN : Transition(force)

\* an external caller asks can_transition_to(new_state)
CanTransitionTo ==
  \E new_state \in CameraState :
    /\ Commit(Machine)
    /\ last' = Step("can_transition_to", new_state, FALSE, can_transition_to(Machine, new_state))
    /\ Locked("can_transition_to")
    /\ UNCHANGED <<wd_firing, hookVars, stopVars, recoveries, shut_down>>

RegisterStateHandler ==
  \E state \in CameraState :
    /\ Cardinality(state_handlers \cup {state}) + Cardinality(transition_handlers) <= MaxHandlers
    /\ state_handlers' = state_handlers \cup {state}
    /\ Notify(<<>>)
    /\ last' = Step("register_state_handler", state, FALSE, FALSE)
    /\ UNCHANGED <<current_state, retry_count, watchdog_timer, wd_firing, recovery_timers,
                   transition_handlers, signal_callbacks, stopVars, lock, recoveries, shut_down>>

RegisterTransitionHandler ==
  \E from_state \in CameraState, to_state \in CameraState :
    /\ Cardinality(state_handlers)
         + Cardinality(transition_handlers \cup {<<from_state, to_state>>}) <= MaxHandlers
    /\ transition_handlers' = transition_handlers \cup {<<from_state, to_state>>}
    /\ Notify(<<>>)
    /\ last' = Step("register_transition_handler", to_state, FALSE, FALSE)
    /\ UNCHANGED <<current_state, retry_count, watchdog_timer, wd_firing, recovery_timers,
                   state_handlers, signal_callbacks, stopVars, lock, recoveries, shut_down>>

\* the watchdog Timer's wait ends un-cancelled: its thread will call the handler
WatchdogExpire ==
  /\ watchdog_timer = "pending"
  /\ wd_firing < MaxFiring
  /\ watchdog_timer' = "expired"
  /\ wd_firing' = wd_firing + 1
  /\ Notify(<<>>)
  /\ last' = Step("watchdog_expire", current_state, FALSE, FALSE)
  /\ UNCHANGED <<current_state, retry_count, recovery_timers, hookVars, stopVars,
                 lock, recoveries, shut_down>>

WatchdogTimeoutHandler ==
  /\ wd_firing > 0
  /\ wd_firing' = wd_firing - 1
  /\ Commit(watchdog_timeout_handler(Machine))
  /\ last' = Step("watchdog_timeout_handler", current_state, FALSE, FALSE)
  /\ UNCHANGED <<hookVars, stopVars, lock, recoveries, shut_down>>

ResetWatchdog ==
  /\ Commit(reset_watchdog(Machine))
  /\ last' = Step("reset_watchdog", current_state, FALSE, FALSE)
  /\ UNCHANGED <<wd_firing, hookVars, stopVars, lock, recoveries, shut_down>>

\* a recovery timer fires: _attempt_recovery
AttemptRecovery ==
  /\ recovery_timers > 0
  /\ \E th_raises \in HookOutcomes(transition_handlers, <<current_state, IDLE>>),
        sh_raises \in HookOutcomes(state_handlers, IDLE) :
       LET m0 == [Machine EXCEPT !.rt = @ - 1]
           r == transition_to(m0, IDLE, TRUE, th_raises, sh_raises)
       IN  /\ Commit(r.m)
           /\ last' = [Step("attempt_recovery", IDLE, TRUE, r.ret)
                         EXCEPT !.raised = r.raised]
           /\ recoveries' = after_recovery(r.ret)
           /\ UNCHANGED shut_down
  /\ Locked("attempt_recovery")
  /\ UNCHANGED <<wd_firing, hookVars, stopVars>>

ForceIdle ==
  /\ Commit(force_idle(Machine))
  /\ last' = Step("force_idle", IDLE, TRUE, TRUE)
  /\ recoveries' = 0
  /\ shut_down' = FALSE
  /\ Locked("force_idle")
  /\ UNCHANGED <<wd_firing, hookVars, stopVars>>

Shutdown ==
  /\ Commit(shutdown(Machine))
  /\ last' = Step("shutdown", IDLE, TRUE, TRUE)
  /\ recoveries' = 0
  /\ shut_down' = TRUE
  /\ Locked("shutdown")
  /\ UNCHANGED <<wd_firing, hookVars, stopVars>>


(* ---------------- SafeStopManager (PyQt6 class) ---------------- *)
Workers == 1..MaxWorkers
Callers == 1..NumCallers
Running(w) == worker[w].pc # "none"
FreeSlots == {w \in Workers : ~Running(w)}

\* a call of safe_stop_recording that got past the flag: the machine is not touched
smCalled ==
  /\ UNCHANGED <<current_state, retry_count, watchdog_timer, wd_firing,
                 recovery_timers, hookVars, pyqt_available, lock, recoveries>>
  /\ shut_down' = FALSE

smUnchanged == UNCHANGED <<current_state, retry_count, watchdog_timer, wd_firing,
                           recovery_timers, hookVars, pyqt_available, lock, recoveries, shut_down>>

\* safe_stop_recording, line 303 (line 406 in the fallback class): the test of the
\* in-progress flag
SafeStopCheck(c) ==
  /\ caller[c] = "idle"
  /\ IF stop_in_progress
       THEN /\ caller' = caller
            /\ last' = StopStep("safe_stop_rejected", FALSE)
       ELSE /\ caller' = [caller EXCEPT ![c] = "checked"]
            /\ last' = StopStep("safe_stop_check", TRUE)
  /\ Notify(<<>>)
  /\ UNCHANGED <<stop_in_progress, worker, fallback>>
  /\ smUnchanged

\* safe_stop_recording, lines 307-316: set the flag and start the worker thread.
\* The callers (app.py lines 258 and 333) pass the application's two managers,
\* so the worker's "if encoder_manager:" / "if camera_manager:" tests pass.
SafeStopStart(c) ==
  /\ pyqt_available
  /\ caller[c] = "checked"
  /\ FreeSlots # {}
  /\ LET w == CHOOSE x \in FreeSlots : \A y \in FreeSlots : x <= y
     IN  worker' = [worker EXCEPT ![w] = [NoWorker EXCEPT !.pc = "drain"]]
  /\ stop_in_progress' = TRUE
  /\ caller' = [caller EXCEPT ![c] = "idle"]
  /\ Notify(<<>>)
  /\ last' = StopStep("safe_stop_start", TRUE)
  /\ UNCHANGED fallback
  /\ smCalled

\* the except clause of _safe_stop_worker
worker_except(wk) ==
  [wk EXCEPT !.progress = Append(@, "Stop failed"),
             !.completed = Append(@, FALSE),
             !.pc = "finally"]

\* mutant: a call that raises is logged and the worker goes on to the next stage
worker_stage_continue_on_raise(wk, messages, call, raises, next_pc) ==
  LET w1 == [wk EXCEPT !.progress = @ \o messages, !.calls = Append(@, call)]
  IN  IF raises
        THEN [w1 EXCEPT !.raised = call, !.pc = next_pc]
        ELSE [w1 EXCEPT !.pc = next_pc]

\* one collaborator stage of _safe_stop_worker: the progress messages, the call,
\* and the jump to the except clause if the call raises
worker_stage(wk, messages, call, raises, next_pc) ==
  LET w1 == [wk EXCEPT !.progress = @ \o messages, !.calls = Append(@, call)]
  IN  IF raises
        THEN worker_except([w1 EXCEPT !.raised = call])
        ELSE [w1 EXCEPT !.pc = next_pc]

WorkerStage(w, wk) ==
  /\ worker' = [worker EXCEPT ![w] = wk]
  /\ Notify(<<>>)
  /\ last' = StopStep("safe_stop_worker", TRUE)
  /\ UNCHANGED <<stop_in_progress, caller, fallback>>
  /\ smUnchanged

\* lines 321-329
WorkerDrain(w) ==
  /\ worker[w].pc = "drain"
  /\ \E raises \in BOOLEAN :
       WorkerStage(w, worker_stage(worker[w],
                     <<"Stopping recording...", "Draining encoder...">>,
                     "drain_encoder", raises, "finalize"))

\* lines 331-334
WorkerFinalize(w) ==
  /\ worker[w].pc = "finalize"
  /\ \E raises \in BOOLEAN :
       WorkerStage(w, worker_stage(worker[w], <<"Finalizing file...">>,
                     "finalize_recording", raises, "stop_camera"))

\* lines 336-341
WorkerStopCamera(w) ==
  /\ worker[w].pc = "stop_camera"
  /\ \E raises \in BOOLEAN :
       WorkerStage(w, worker_stage(worker[w], <<"Finalizing camera...">>,
                     "stop_recording_safe", raises, "transition"))

\* mutant: "Ready" is reported whatever transition_to returned
worker_transition_always_ready(wk, r) ==
  [wk EXCEPT !.progress = @ \o <<"Returning to preview...", "Ready">>,
             !.calls = Append(@, "transition_to"),
             !.tret = r.ret,
             !.completed = Append(@, r.ret),
             !.pc = "finally"]

\* lines 343-354: the transition to Preview, the last progress message and the
\* completion event
worker_transition(wk, r) ==
  [wk EXCEPT !.progress = @ \o <<"Returning to preview...",
                                 IF r.ret THEN "Ready" ELSE "Stop completed with errors">>,
             !.calls = Append(@, "transition_to"),
             !.tret = r.ret,
             !.completed = Append(@, r.ret),
             !.pc = "finally"]

WorkerTransition(w) ==
  /\ worker[w].pc = "transition"
  /\ \E th_raises \in HookOutcomes(transition_handlers, <<current_state, PREVIEW>>),
        sh_raises \in HookOutcomes(state_handlers, PREVIEW) :
       LET r == transition_to(Machine, PREVIEW, FALSE, th_raises, sh_raises)
       IN  /\ Commit(r.m)
           /\ last' = [Step("transition_to", PREVIEW, FALSE, r.ret)
                         EXCEPT !.raised = r.raised, !.by = w]
           /\ worker' = [worker EXCEPT ![w] = worker_transition(worker[w], r)]
           /\ recoveries' = after_transition(PREVIEW, r.ret)
  /\ Locked("transition_to")
  /\ UNCHANGED <<wd_firing, hookVars, pyqt_available, stop_in_progress, caller, fallback,
                 shut_down>>

\* mutant: the flag is cleared at the end of the try block only
worker_finally_try_only(wk) == IF wk.raised = "none" THEN FALSE ELSE stop_in_progress

\* lines 361-362: the value the finally clause gives _stop_in_progress
worker_finally(wk) == FALSE

\* the finally clause runs and the thread ends
WorkerFinally(w) ==
  /\ worker[w].pc = "finally"
  /\ stop_in_progress' = worker_finally(worker[w])
  /\ worker' = [worker EXCEPT ![w] = NoWorker]
  /\ Notify(<<>>)
  /\ last' = StopStep("safe_stop_finally", TRUE)
  /\ UNCHANGED <<caller, fallback>>
  /\ smUnchanged

WorkerStep(w) ==
  \/ WorkerDrain(w)
  \/ WorkerFinalize(w)
  \/ WorkerStopCamera(w)
  \/ WorkerTransition(w)
  \/ WorkerFinally(w)

SafeStop ==
  \/ \E c \in Callers : SafeStopCheck(c)
  \/ \E c \in Callers : SafeStopStart(c)
  \/ \E w \in Workers : WorkerStep(w)

(* ---------------- SafeStopManager (fallback class) ---------------- *)
\* lines 410-415: set the flag, report, sleep
FallbackStart(c) ==
  /\ ~pyqt_available
  /\ caller[c] = "checked"
  /\ stop_in_progress' = TRUE
  /\ fallback' = [fallback EXCEPT ![c] = [NoRun EXCEPT !.progress = <<"Stopping recording...">>]]
  /\ caller' = [caller EXCEPT ![c] = "sleeping"]
  /\ Notify(<< <<"stop_progress", "Stopping recording...">> >>)
  /\ last' = StopStep("safe_stop_start", TRUE)
  /\ UNCHANGED worker
  /\ smCalled

\* lines 417-420: the transition to Preview and the completion event
fallback_transition(run, r) ==
  [run EXCEPT !.progress = Append(@, "Finalizing..."),
              !.calls = Append(@, "transition_to"),
              !.tret = r.ret,
              !.completed = Append(@, r.ret)]

\* lines 425-426: the value the finally clause gives _stop_in_progress
fallback_finally(run) == FALSE

\* lines 417-426; nothing in the try block raises (the emit_ methods and
\* transition_to catch what their callees raise), so the except clause is not entered
FallbackFinish(c) ==
  /\ caller[c] = "sleeping"
  /\ \E th_raises \in HookOutcomes(transition_handlers, <<current_state, PREVIEW>>),
        sh_raises \in HookOutcomes(state_handlers, PREVIEW) :
       LET r == transition_to(Machine, PREVIEW, FALSE, th_raises, sh_raises)
       IN  /\ Commit([r.m EXCEPT !.em = << <<"stop_progress", "Finalizing...">> >> \o @
                                           \o << <<"stop_completed", r.ret>> >>])
           /\ last' = [Step("safe_stop_finish", PREVIEW, FALSE, r.ret)
                         EXCEPT !.raised = r.raised]
           /\ fallback' = [fallback EXCEPT ![c] = fallback_transition(fallback[c], r)]
           /\ stop_in_progress' = fallback_finally(fallback'[c])
           /\ recoveries' = after_transition(PREVIEW, r.ret)
  /\ shut_down' = FALSE
  /\ caller' = [caller EXCEPT ![c] = "idle"]
  /\ Locked("safe_stop_finish")
  /\ UNCHANGED <<wd_firing, hookVars, pyqt_available, worker>>

FallbackSafeStop ==
  \/ \E c \in Callers : FallbackStart(c)
  \/ \E c \in Callers : FallbackFinish(c)

\* connect_state_changed, connect_error_occurred, connect_stop_progress,
\* connect_stop_completed: append a callback, one that raises or one that does not
Connect(event, raises) ==
  /\ ~pyqt_available
  /\ Len(signal_callbacks["state_changed"]) + Len(signal_callbacks["error_occurred"])
       + Len(signal_callbacks["stop_progress"]) + Len(signal_callbacks["stop_completed"])
       < MaxSubscribers
  /\ signal_callbacks' = [signal_callbacks EXCEPT ![event] = Append(@, raises)]
  /\ Notify(<<>>)
  /\ last' = StopStep("connect", TRUE)
  /\ UNCHANGED <<current_state, retry_count, watchdog_timer, wd_firing, recovery_timers,
                 state_handlers, transition_handlers, stopVars, lock, recoveries, shut_down>>

\* transition_to, line 132: a caller enters "with self._lock:"; the rest of its
\* call is a later step
LockAcquire ==
  /\ lock = "free"
  /\ lock' = "transition_to"
  /\ Notify(<<>>)
  /\ last' = Step("lock_acquire", current_state, FALSE, FALSE)
  /\ UNCHANGED <<current_state, retry_count, watchdog_timer, wd_firing, recovery_timers,
                 hookVars, stopVars, recoveries, shut_down>>

Next ==
  \/ TransitionTo
  \/ CanTransitionTo
  \/ RegisterStateHandler
  \/ RegisterTransitionHandler
  \/ WatchdogExpire
  \/ WatchdogTimeoutHandler
  \/ ResetWatchdog
  \/ AttemptRecovery
  \/ ForceIdle
  \/ Shutdown

Spec == Init /\ [][Next]_vars

\* the state machine with its two timers, its hooks and the application's calls
\* (app.py, bottom_bar.py: transition_to without force)
NextRecovery ==
  \/ Transition(FALSE)
  \/ RegisterStateHandler
  \/ RegisterTransitionHandler
  \/ WatchdogExpire
  \/ WatchdogTimeoutHandler
  \/ AttemptRecovery

\* a started recovery timer (threading.Timer(2.0, ...), line 208) fires
RecoverySpec == Init /\ [][NextRecovery]_vars /\ WF_vars(AttemptRecovery)

\* the safe-stop sequencer with the application's callers of the state machine
\* around it (app.py, bottom_bar.py: none of them passes force)
NextStop ==
  \/ Transition(FALSE)
  \/ SafeStop

StopSpec == Init /\ [][NextStop]_vars

\* the threads that touch the mode, the retry counter and the watchdog handle:
\* callers of transition_to, shown entering the lock and then running the call,
\* the watchdog timer thread, the recovery timer thread and callers of
\* reset_watchdog
\* closing the application (app.py, closeEvent, lines 331-342): callers, the
\* safe-stop worker, the timer threads and shutdown()
NextShutdown ==
  \/ Transition(FALSE)
  \/ SafeStop
  \/ WatchdogExpire
  \/ WatchdogTimeoutHandler
  \/ AttemptRecovery
  \/ Shutdown

ShutdownSpec == Init /\ [][NextShutdown]_vars

NextLock ==
  \/ LockAcquire
  \/ Transition(FALSE)
  \/ WatchdogExpire
  \/ WatchdogTimeoutHandler
  \/ ResetWatchdog
  \/ AttemptRecovery

LockSpec == Init /\ [][NextLock]_vars

\* the fallback classes (no PyQt6) with their subscribers
InitFallback == InitWith(FALSE)

\* the fallback safe_stop_recording runs in its caller's thread: one caller
NextSubscriber ==
  \/ \E event \in Events, raises \in BOOLEAN : Connect(event, raises)
  \/ Transition(FALSE)
  \/ WatchdogExpire
  \/ WatchdogTimeoutHandler
  \/ SafeStopCheck(1)
  \/ FallbackStart(1)
  \/ FallbackFinish(1)

SubscriberSpec == InitFallback /\ [][NextSubscriber]_vars

\* the same with either SafeStopManager class
NextAnyStop ==
  \/ Transition(FALSE)
  \/ SafeStop
  \/ FallbackSafeStop

\* a started worker thread keeps being scheduled until it ends, and a thread inside
\* the fallback safe_stop_recording returns from its sleep
FairStopSpec ==
  /\ InitAny /\ [][NextAnyStop]_vars
  /\ \A w \in Workers : WF_vars(WorkerStep(w))
  /\ \A c \in Callers : WF_vars(FallbackFinish(c))

(* ======================= claims ======================= *)

\* C1: a non-forced transition_to whose target is not in VALID_TRANSITIONS[from]
\* returns False, leaves the mode, the retry counter and the watchdog as they
\* were, and emits no notification.
C1_InvalidTransitionRejected ==
  (last.op = "transition_to" /\ ~last.force
     /\ last.target \notin VALID_TRANSITIONS[last.old])
  => /\ last.ret = FALSE
     /\ current_state = last.old
     /\ emitted = <<>>
     /\ retry_count = last.rc0
     /\ watchdog_timer = last.wd0
     /\ recovery_timers = last.rt0

\* a rejected Preview -> Stopping (the case of test_core.py) with the watchdog armed
C1_Witness ==
  /\ last.op = "transition_to" /\ ~last.force
  /\ last.old = PREVIEW /\ last.target = STOPPING
  /\ last.wd0 = "pending"
  /\ ~last.ret

\* C2: for (from, to) in VALID_TRANSITIONS, a transition_to(to) that returns True
\* leaves the mode equal to `to` and has emitted exactly one notification,
\* state-changed (to, from).
C2_ValidTransitionCommits ==
  (last.op = "transition_to" /\ last.target \in VALID_TRANSITIONS[last.old] /\ last.ret)
  => /\ current_state = last.target
     /\ emitted = << <<"state_changed", last.target, last.old>> >>

\* a successful Preview -> Recording
C2_Witness ==
  /\ last.op = "transition_to" /\ last.ret /\ ~last.force
  /\ last.old = PREVIEW /\ last.target = RECORDING
  /\ current_state = RECORDING

\* C3 as stated: a forced transition_to returns True and the mode becomes the
\* target, whatever hooks are registered.
C3_ForceAlwaysSucceeds ==
  (last.op = "transition_to" /\ last.force)
  => (last.ret /\ current_state = last.target)

\* C3 amended: a forced transition_to returns True and the mode becomes the target,
\* in the table or not, unless a hook called by it raises; then it returns False
\* and the mode is Error.
C3_ForceSucceedsUnlessHookRaises ==
  (last.op = "transition_to" /\ last.force)
  => /\ last.raised = "none" => (last.ret /\ current_state = last.target)
     /\ last.raised # "none" => (~last.ret /\ current_state = ERROR)

\* a forced move outside the table: Recording -> Idle
C3_Witness ==
  /\ last.op = "transition_to" /\ last.force /\ last.ret
  /\ last.old = RECORDING /\ last.target = IDLE
  /\ current_state = IDLE

\* C4: can_transition_to(target) is True exactly when target is in
\* VALID_TRANSITIONS[current mode] and changes nothing; with no hooks registered a
\* non-forced transition_to(target) returns True exactly in that case, and a
\* non-forced transition to the mode already held is rejected.
C4_CanTransitionAgrees ==
  /\ last.op = "can_transition_to"
       => /\ last.ret <=> (last.target \in VALID_TRANSITIONS[current_state])
          /\ current_state = last.old /\ retry_count = last.rc0
          /\ watchdog_timer = last.wd0 /\ recovery_timers = last.rt0
          /\ emitted = <<>>
  /\ (last.op = "transition_to" /\ ~last.force
        /\ state_handlers = {} /\ transition_handlers = {})
       => /\ last.ret <=> (last.target \in VALID_TRANSITIONS[last.old])
          /\ last.target = last.old => ~last.ret

\* a rejected non-forced Recording -> Recording with no hooks registered
C4_Witness ==
  /\ last.op = "transition_to" /\ ~last.force
  /\ state_handlers = {} /\ transition_handlers = {}
  /\ last.old = RECORDING /\ last.target = RECORDING
  /\ ~last.ret /\ current_state = RECORDING

(* ----------- claims about SafeStopManager (StopSpec) ----------- *)
AllCalls == <<"drain_encoder", "finalize_recording", "stop_recording_safe", "transition_to">>
FirstFive == <<"Stopping recording...", "Draining encoder...", "Finalizing file...",
               "Finalizing camera...", "Returning to preview...">>
\* a worker that has emitted its completion event and not yet left
Completed(w) == worker[w].pc = "finally"

\* C5: a safe-stop run with non-failing collaborators whose final transition is
\* requested in Recording ends with the machine in Preview and completion = true.
C5_SafeStopReachesPreview ==
  \A w \in Workers :
    (Completed(w) /\ worker[w].raised = "none"
       /\ last.op = "transition_to" /\ last.by = w /\ last.old = RECORDING)
    => (current_state = PREVIEW /\ worker[w].completed = <<TRUE>>)

C7_FailureDoesNotAbort ==
  \A w \in Workers : Completed(w) => worker[w].calls = AllCalls

\* C8: at most one safe-stop worker exists at any time.
C8_AtMostOneRun == Cardinality({w \in Workers : Running(w)}) <= 1

\* C9: every started run, of the worker thread or of the fallback class, ends,
\* whatever path it takes, and its last step clears the in-progress flag; a call
\* is rejected only while the flag is set.
C9_FlagAlwaysCleared ==
  /\ \A w \in Workers : Running(w) ~> ~Running(w)
  /\ \A c \in Callers : (caller[c] = "sleeping") ~> (caller[c] = "idle")
  /\ [][\A w \in Workers : (Completed(w) /\ ~Running(w)') => ~stop_in_progress']_vars
  /\ [][\A c \in Callers :
          (caller[c] = "sleeping" /\ caller'[c] = "idle") => ~stop_in_progress']_vars
  /\ [][last'.op = "safe_stop_rejected" => stop_in_progress]_vars

\* a run that a raising collaborator sent through the except clause is about to end
C9_Witness ==
  \E w \in Workers :
    /\ Completed(w) /\ worker[w].raised = "finalize_recording"
    /\ stop_in_progress

\* C10: every run emits exactly one completion event, whose flag is the value
\* returned by the run's transition_to(Preview) call.
C10_CompletionIsTransitionResult ==
  \A w \in Workers :
    Completed(w)
    => /\ Len(worker[w].completed) = 1
       /\ "transition_to" \in {worker[w].calls[i] : i \in 1..Len(worker[w].calls)}
       /\ worker[w].completed[1] = worker[w].tret

(* ----------- claims about the watchdog and auto-recovery ----------- *)
\* the error notifications among those of the latest step
Errors == SelectSeq(emitted, LAMBDA e : e[1] = "error_occurred")
\* the messages of _watchdog_timeout_handler, the ones that contain "stalled"
StalledMessages == {"Preview stalled - watchdog timeout",
                    "Recording stalled - watchdog timeout"}

\* C11: when the watchdog armed on entering Preview elapses and its handler runs
\* with the mode still Preview and that timer still the machine's watchdog (no
\* transition and no reset_watchdog since it was armed), the handler emits exactly
\* one error notification, whose message contains "stalled", and the mode is Error.
C11_PreviewStallReported ==
  (last.op = "watchdog_timeout_handler" /\ last.old = PREVIEW /\ last.wd0 = "expired")
  => /\ Len(Errors) = 1
     /\ Errors[1][2] \in StalledMessages
     /\ current_state = ERROR

\* the handler has run in Preview for the timer armed on entering it
C11_Witness ==
  /\ last.op = "watchdog_timeout_handler" /\ last.old = PREVIEW /\ last.wd0 = "expired"
  /\ current_state = ERROR
  /\ Errors = << <<"error_occurred", "Preview stalled - watchdog timeout">> >>

\* C12: after 3 consecutive automatic recoveries with no other successful
\* non-error transition in between, an error (a step that emits an error
\* notification) schedules no recovery timer and leaves the mode Error.
C12_FourthErrorNotRecovered ==
  (recoveries >= max_retries /\ last.op # "attempt_recovery" /\ Len(Errors) > 0)
  => /\ recovery_timers = last.rt0
     /\ current_state = ERROR

\* the operations that callers outside the state machine invoke
ExternalOps == {"transition_to", "can_transition_to", "register_state_handler",
                "register_transition_handler", "reset_watchdog", "force_idle", "shutdown"}
\* the watchdog handler has just run with the mode Recording
RecordingStalled == last.op = "watchdog_timeout_handler" /\ last.old = RECORDING

C14_ErrorHasRecoveryPending ==
  current_state = ERROR => (recovery_timers > 0 \/ retry_count > max_retries)

C17_NoStaleWatchdogError ==
  (last.op = "watchdog_timeout_handler" /\ last.wd0 # "expired")
  => /\ emitted = <<>>
     /\ current_state = last.old
     /\ retry_count = last.rc0
     /\ recovery_timers = last.rt0

\* C18: the mode, the retry counter and the watchdog handle are written only by
\* the operation that holds the lock: no step changes any of them while another
\* operation is inside "with self._lock:". (A timer's wait ending is the Timer
\* object's own change, not a write of the handle.)
C18_WritesUnderLock ==
  [][(\/ current_state' # current_state
      \/ retry_count' # retry_count
      \/ watchdog_timer' # watchdog_timer /\ last'.op # "watchdog_expire")
     => (lock = "free" \/ lock = last'.op)]_vars

\* C19: a watchdog deadline is pending only while the mode is Preview or Recording.
C19_WatchdogOnlyInPreviewOrRecording ==
  watchdog_timer = "pending" => current_state \in {PREVIEW, RECORDING}

AllSubscribersCalled(e) ==
  \A i \in 1..Len(signal_callbacks[e[1]]) :
    \E k \in 1..Len(delivered.calls) : delivered.calls[k] = <<e, i>>

\* C16: every notification a step emits (state-changed, error, progress,
\* completed) is passed to every callback connected for it, raising ones among
\* them or not, and no exception leaves the emit method, so that the operation
\* goes on as it does without subscribers.
C16_SubscribersIsolated ==
  /\ ~delivered.escaped
  /\ \A k \in 1..Len(emitted) : AllSubscribersCalled(emitted[k])
  /\ (last.op = "safe_stop_start" /\ ~pyqt_available)
       => AllSubscribersCalled(<<"stop_progress", "Stopping recording...">>)
  /\ last.op = "safe_stop_finish"
       => /\ AllSubscribersCalled(<<"stop_progress", "Finalizing...">>)
          /\ AllSubscribersCalled(<<"stop_completed", last.ret>>)

\* a state-changed notification reached the second callback after the first raised
C16_Witness ==
  /\ signal_callbacks["state_changed"] = <<TRUE, FALSE>>
  /\ last.op = "transition_to" /\ last.ret /\ last.target = PREVIEW
  /\ delivered.calls = << << <<"state_changed", PREVIEW, IDLE>>, 1 >>,
                          << <<"state_changed", PREVIEW, IDLE>>, 2 >> >>

(* ----------- claims about errors and the retry counter ----------- *)
\* the calls of transition_to: a caller's, or the recovery timer's
TransitionCall == last.op \in {"transition_to", "attempt_recovery"}
\* the step ran _handle_error: a hook raised, or the watchdog handler found the
\* mode Preview or Recording
ErrorRaised ==
  \/ TransitionCall /\ last.raised # "none"
  \/ last.op = "watchdog_timeout_handler" /\ last.old \in {PREVIEW, RECORDING}
\* the recovery timers left when the step reached _handle_error (the recovery
\* timer that is firing is no longer pending)
TimersBefore == IF last.op = "attempt_recovery" THEN last.rt0 - 1 ELSE last.rt0

\* C21: when the mode-entry hook of target raises, the call has first committed
\* target and emitted state-changed (target, old); it then emits one error
\* notification, the mode is Error and the call returns False.
C21_EntryHookFailure ==
  (TransitionCall /\ last.raised = "state_handler")
  => /\ Len(emitted) >= 2
     /\ emitted[1] = <<"state_changed", last.target, last.old>>
     /\ emitted[2][1] = "error_occurred"
     /\ Len(Errors) = 1
     /\ current_state = ERROR
     /\ ~last.ret

\* the entry hook of Preview raised on Idle -> Preview
C21_Witness ==
  /\ last.op = "transition_to" /\ last.raised = "state_handler"
  /\ last.old = IDLE /\ last.target = PREVIEW
  /\ current_state = ERROR /\ ~last.ret
  /\ emitted[1] = <<"state_changed", PREVIEW, IDLE>>

\* C22: a step in which an error is raised emits exactly one error notification,
\* leaves the mode Error and the retry counter positive, one more than it was when
\* the error was raised, and starts a recovery timer exactly when the incremented
\* counter is at most max_retries.
C22_ErrorHandling ==
  ErrorRaised
  => /\ Len(Errors) = 1
     /\ current_state = ERROR
     /\ retry_count =
          (IF last.raised = "state_handler" /\ last.target # ERROR THEN 0 ELSE last.rc0) + 1
     /\ recovery_timers =
          TimersBefore + (IF retry_count <= max_retries THEN 1 ELSE 0)

\* a 4th error in a row: the counter is 4 and no recovery timer is started
C22_Witness ==
  /\ ErrorRaised /\ retry_count = max_retries + 1
  /\ recovery_timers = 0 /\ current_state = ERROR

\* C23: a transition_to call that commits a target other than Error and returns
\* True leaves the retry counter 0 (forced or not, the recovery timer's call
\* too); one that commits Error, and one that is rejected, leave it as it was.
C23_RetryCounterReset ==
  TransitionCall
  => /\ (last.ret /\ last.target # ERROR) => retry_count = 0
     /\ (last.ret /\ last.target = ERROR) => retry_count = last.rc0
     /\ (~last.ret /\ last.raised = "none") => retry_count = last.rc0

\* the recovery timer's forced transition to Idle reset a counter that was 2
C23_Witness ==
  /\ last.op = "attempt_recovery" /\ last.ret /\ last.rc0 = 2
  /\ retry_count = 0 /\ current_state = IDLE

(* ----------- claims about the order of the safe-stop stages ----------- *)
IsPrefix(a, b) == Len(a) <= Len(b) /\ a = SubSeq(b, 1, Len(a))

\* C24: in every safe-stop run the calls made so far are an initial part of
\* drain_encoder, finalize_recording, stop_recording_safe, transition_to; a call is
\* made only after the ones before it have returned, so transition_to(Preview) has
\* been attempted only in a run whose three collaborator calls all returned.
C24_StagesInOrder ==
  \A w \in Workers :
    Running(w)
    => /\ IsPrefix(worker[w].calls, AllCalls)
       /\ worker[w].raised # "none"
            => worker[w].calls[Len(worker[w].calls)] = worker[w].raised
       /\ (last.op = "transition_to" /\ last.by = w)
            => (worker[w].calls = AllCalls /\ worker[w].raised = "none")

\* the worker brought the machine to Preview after its three calls
C24_Witness ==
  \E w \in Workers :
    /\ last.op = "transition_to" /\ last.by = w /\ last.ret
    /\ last.old # PREVIEW /\ current_state = PREVIEW
    /\ worker[w].calls = AllCalls /\ worker[w].raised = "none"

(* ----------- claims about the state-changed notification ----------- *)
\* the mode held just before the k-th notification of the latest step was emitted
ModeBefore(k) ==
  LET js == {j \in 1..(k - 1) : emitted[j][1] = "state_changed"}
  IN  IF js = {} THEN last.old
      ELSE emitted[CHOOSE j \in js : \A i \in js : i <= j][2]

\* C25: every state-changed notification (new, old) has old = the mode held just
\* before the change it reports, and new # old when it follows an error
\* notification, that is, when it reports the move to Error made by an error.
C25_StateChangedReportsOldMode ==
  \A k \in 1..Len(emitted) :
    emitted[k][1] = "state_changed"
    => /\ emitted[k][3] = ModeBefore(k)
       /\ (\E j \in 1..(k - 1) : emitted[j][1] = "error_occurred")
            => emitted[k][2] # emitted[k][3]

(* ----------- claims about the recovery timer ----------- *)
\* C26: every mode change made by a recovery timer has old mode = Error: a timer
\* that fires after the machine has left Error leaves the mode as it is.
C26_RecoveryOnlyFromError ==
  (last.op = "attempt_recovery" /\ last.old # ERROR) => current_state = last.old

(* ----------- claims about shutdown ----------- *)
\* C27: after shutdown() has returned, and until a caller requests a transition or
\* a safe stop, the mode is Idle and no watchdog is armed, whatever the recovery
\* timers, the watchdog threads and a safe-stop worker still running do.
C27_ShutdownIsFinal ==
  shut_down => (current_state = IDLE /\ watchdog_timer = "None")

(* ----------- claims about the bound of the retry counter ----------- *)
\* C28: in every reachable state the retry counter is between 0 and
\* max_retries + 1.
C28_RetryCounterBounded ==
  0 <= retry_count /\ retry_count <= max_retries + 1

(* ----------- claims about the result of transition_to ----------- *)
\* C29: when transition_to returns False the mode is the one held before the
\* call (the call was rejected) or Error (a hook raised); it is the requested
\* target only if the target is Error or the mode held before.
C29_FalseLeavesOldOrError ==
  (TransitionCall /\ ~last.ret)
  => /\ last.raised = "none" => current_state = last.old
     /\ last.raised # "none" => current_state = ERROR
     /\ current_state = last.target => last.target \in {ERROR, last.old}

\* the entry hook of Recording raised on Preview -> Recording: the call returned
\* False and the mode is Error, neither Recording nor Preview
C29_Witness ==
  /\ last.op = "transition_to" /\ ~last.ret /\ last.raised = "state_handler"
  /\ last.old = PREVIEW /\ last.target = RECORDING
  /\ current_state = ERROR

(* ----------- claims about the two SafeStopManager classes ----------- *)
\* C30: a finished run of the fallback class has made the calls a run of the PyQt6
\* class with non-failing collaborators makes: drain_encoder, finalize_recording,
\* stop_recording_safe, then transition_to(Preview).
C30_FallbackMakesSameCalls ==
  \A c \in Callers :
    fallback[c].completed # <<>> => fallback[c].calls = AllCalls

====
